---- MODULE Spec2Model ----
(***************************************************************************)
(* ForcePointActuator (SoftRobots.Inverse): bound management, constraint   *)
(* rows and result storage, modelled from ForcePointActuator.inl.          *)
(*                                                                         *)
(* Real numbers are modelled on an integer grid.  A sofa::Data<T> that may *)
(* or may not have been given by the scene is a record [isSet, value].     *)
(* Sequences are 1-based here, 0-based in the source: source index j is    *)
(* index j+1 below.  A call that reads or writes a vector out of range, or *)
(* dereferences a null m_state, yields a set of results: the process stops *)
(* (crashed), or the read returns an arbitrary value and the write lands   *)
(* outside the vector.  d_epsilon, the visualisation Data and draw() hold  *)
(* no state the bounds or the rows depend on and are left out.             *)
(***************************************************************************)
EXTENDS Integers, Sequences, FiniteSets, TLC

\* ------------------------------------------------------------------ bounds
MaxForce == 1        \* multipliers returned by the solver lie in -MaxForce..MaxForce
MaxStart == 1        \* the solver starts a pass at a row offset in 0..MaxStart
MaxBody  == 2        \* the body has 0..MaxBody points

\* ------------------------------------------------------- program constants
total_size == 3      \* Deriv::total_size of the Vec3 instantiation

Actuators == {1, 2}

Vals      == (0 - MaxForce)..MaxForce
DeltaVals == {0, 1}

\* the values an out-of-range read of a vector of doubles is modelled to return
Extremes  == {0 - MaxForce, MaxForce}

Abs(x) == IF x < 0 THEN 0 - x ELSE x

Unset      == [isSet |-> FALSE, value |-> 0]
Given(v)   == [isSet |-> TRUE, value |-> v]

\* sofa::type::vector<T>::resize(n): keeps the first n entries, pads with T()
resize(s, n) == [i \in 1..n |-> IF i <= Len(s) THEN s[i] ELSE 0]

\* vector(n, v)
filled(n, v) == [i \in 1..n |-> v]

\* d_direction.getValue().norm() < 1e-10 on the integer grid
normIsZero(d) == d[1] * d[1] + d[2] * d[2] + d[3] * d[3] = 0

\* direction /= direction.norm(), for the axis-aligned directions of the model;
\* a zero direction divides by zero and yields NaN components, not a fault
normalized(d) ==
    IF normIsZero(d) THEN "NaN"
    ELSE LET n == Abs(d[1]) + Abs(d[2]) + Abs(d[3])
         IN  <<d[1] \div n, d[2] \div n, d[3] \div n>>

\* Deriv dir; dir[j] = 1;
unitAxis(j) == [i \in 1..total_size |-> IF i = j THEN 1 ELSE 0]

\* the number of axes the loops of updateLimit / storeResults / buildConstraintMatrix visit
axes(o) == IF o.m_dim > 1 THEN total_size ELSE 1

\* the process stopped on an invalid memory access
Crash(o) == [o EXCEPT !.crashed = TRUE]

\* ---------------------------------------------------------------- the object
\* state of a ForcePointActuator after its constructor; m_dim has no initializer
\* in the constructor, so dim0 is whatever the memory held
Constructed(dir, idx, maxF, minF, initF, maxVar, ms, dim0) ==
    [ d_indices           |-> idx,
      d_maxForce          |-> maxF,
      d_minForce          |-> minF,
      d_initForce         |-> initF,
      d_maxForceVariation |-> maxVar,
      d_force             |-> <<>>,
      d_displacement      |-> 0,
      d_direction         |-> dir,
      d_constraintIndex   |-> 0,
      m_state             |-> ms,
      m_dim               |-> dim0,
      m_nbLines           |-> 0,
      m_lambdaInit        |-> <<>>,
      m_lambdaMax         |-> <<>>,
      m_lambdaMin         |-> <<>>,
      m_hasLambdaInit     |-> FALSE,
      m_hasLambdaMax      |-> FALSE,
      m_hasLambdaMin      |-> FALSE,
      crashed             |-> FALSE ]

\* --------------------------------------------------------------- updateLimit
\* mutant: the ceiling is not broadcast again
broadcastMax_Skip(o) == o

\* if(d_maxForce.isSet()) for (auto& lambda: m_lambdaMax) lambda = d_maxForce
broadcastMax(o) ==
    IF o.d_maxForce.isSet
    THEN [o EXCEPT !.m_lambdaMax = filled(Len(o.m_lambdaMax), o.d_maxForce.value)]
    ELSE o

\* if(d_minForce.isSet()) for (auto& lambda: m_lambdaMin) lambda = d_minForce
broadcastMin(o) ==
    IF o.d_minForce.isSet
    THEN [o EXCEPT !.m_lambdaMin = filled(Len(o.m_lambdaMin), o.d_minForce.value)]
    ELSE o

\* mutant: the distance to the floor is taken without rabs
mustRecenterMin_Signed(o, j) ==
    \/ o.m_lambdaMin[j] - o.d_force[j] >= o.d_maxForceVariation.value
    \/ ~o.d_minForce.isSet

\* the test of lines 198 / 206
mustRecenterMin(o, j) ==
    \/ Abs(o.m_lambdaMin[j] - o.d_force[j]) >= o.d_maxForceVariation.value
    \/ ~o.d_minForce.isSet

\* mutant: the ceiling is re-centred on every call
mustRecenterMax_Always(o, j) == TRUE

\* the test of lines 200 / 208
mustRecenterMax(o, j) ==
    \/ Abs(o.m_lambdaMax[j] - o.d_force[j]) >= o.d_maxForceVariation.value
    \/ ~o.d_maxForce.isSet

\* mutant: the floor is re-centred above the force
recenteredMin_Plus(o, j) == o.d_force[j] + o.d_maxForceVariation.value

\* mutant: the floor is lowered from its previous value, not from the force
recenteredMin_Relative(o, j) == o.m_lambdaMin[j] - o.d_maxForceVariation.value

\* the assignment of lines 199 / 207
recenteredMin(o, j) == o.d_force[j] - o.d_maxForceVariation.value

\* the assignment of lines 201 / 209
recenteredMax(o, j) == o.d_force[j] + o.d_maxForceVariation.value

\* the body of if(d_maxForceVariation.isSet()), both branches of m_dim>1
rateLimit(o) ==
    [o EXCEPT
       !.m_lambdaMin = [j \in 1..Len(o.m_lambdaMin) |->
                          IF j <= axes(o) /\ mustRecenterMin(o, j)
                          THEN recenteredMin(o, j) ELSE o.m_lambdaMin[j]],
       !.m_lambdaMax = [j \in 1..Len(o.m_lambdaMax) |->
                          IF j <= axes(o) /\ mustRecenterMax(o, j)
                          THEN recenteredMax(o, j) ELSE o.m_lambdaMax[j]]]

\* updateLimit(): the set of results the call can have.  With the vectors
\* shorter than the axes visited (only before init, when they are empty) the
\* reads and writes of lines 198-209 are out of range: the process stops, or
\* the values read are garbage and the writes land outside the vectors.
updateLimit(o) ==
    LET b == broadcastMin(broadcastMax(o))
    IN  IF ~o.d_maxForceVariation.isSet THEN {b}
        ELSE IF /\ Len(b.m_lambdaMin) >= axes(b)
                /\ Len(b.m_lambdaMax) >= axes(b)
                /\ Len(b.d_force) >= axes(b)
             THEN {rateLimit(b)}
             ELSE {Crash(b), b}

\* ------------------------------------------------------ initData / initLimit
\* line 133
dimensionOf(dir) == IF normIsZero(dir) THEN total_size ELSE 1

\* lines 141-145: m_lambdaInit[0] is written before the resize of line 152
setLambdaInit(o) ==
    IF ~o.d_initForce.isSet THEN {o}
    ELSE LET h == [o EXCEPT !.m_hasLambdaInit = TRUE]
         IN  IF Len(o.m_lambdaInit) >= 1
             THEN {[h EXCEPT !.m_lambdaInit[1] = o.d_initForce.value]}
             ELSE {Crash(h), h}

\* mutant: m_lambdaInit is not resized
resizeAll_Partial(o) ==
    [o EXCEPT !.d_force      = filled(o.m_dim, o.d_initForce.value),
              !.m_lambdaMax  = resize(o.m_lambdaMax, o.m_dim),
              !.m_lambdaMin  = resize(o.m_lambdaMin, o.m_dim)]

\* lines 147-154
resizeAll(o) ==
    [o EXCEPT !.d_force      = filled(o.m_dim, o.d_initForce.value),
              !.m_lambdaInit = resize(o.m_lambdaInit, o.m_dim),
              !.m_lambdaMax  = resize(o.m_lambdaMax, o.m_dim),
              !.m_lambdaMin  = resize(o.m_lambdaMin, o.m_dim)]

initData(o) ==
    LET d == [o EXCEPT !.m_dim = dimensionOf(o.d_direction)]
    IN  {IF s.crashed THEN s ELSE resizeAll(s) : s \in setLambdaInit(d)}

initLimit(o) ==
    LET f == [o EXCEPT
                !.m_hasLambdaMax = o.m_hasLambdaMax \/ o.d_maxForce.isSet
                                     \/ o.d_maxForceVariation.isSet,
                !.m_hasLambdaMin = o.m_hasLambdaMin \/ o.d_minForce.isSet
                                     \/ o.d_maxForceVariation.isSet]
    IN  updateLimit(f)

\* init() and reinit(): initData(); initLimit();  (the missing mechanical state
\* is only reported by init())
initAll(o) ==
    UNION {IF s.crashed THEN {s} ELSE initLimit(s) : s \in initData(o)}

\* ------------------------------------------------------------- storeResults
\* d_displacement.setValue(delta[0])
storeDisplacement(o, delta) ==
    IF Len(delta) >= 1
    THEN {[o EXCEPT !.d_displacement = delta[1]]}
    ELSE {Crash(o)} \cup {[o EXCEPT !.d_displacement = g] : g \in DeltaVals}

\* force[j] = lambda[j] for one axis j
storeAxis(o, lambda, j) ==
    LET read == IF j <= Len(lambda) THEN {lambda[j]} ELSE Extremes
    IN  IF j <= Len(o.d_force)
        THEN {[o EXCEPT !.d_force[j] = v] : v \in read}
                \cup (IF j <= Len(lambda) THEN {} ELSE {Crash(o)})
        ELSE {Crash(o), o}

RECURSIVE storeAxes(_, _, _, _)
storeAxes(S, lambda, j, n) ==
    IF j > n THEN S
    ELSE storeAxes(UNION {IF s.crashed THEN {s} ELSE storeAxis(s, lambda, j) : s \in S},
                   lambda, j + 1, n)

\* mutant: the bounds are refreshed before the multipliers are stored
storeResults_RefreshFirst(o, lambda, delta) ==
    LET refreshed == updateLimit(o)
        shown     == UNION {IF s.crashed THEN {s} ELSE storeDisplacement(s, delta) :
                               s \in refreshed}
    IN  storeAxes(shown, lambda, 1, axes(o))

\* storeResults(lambda, delta) up to and including updateLimit(); the base
\* Actuator::storeResults that follows touches none of the state modelled here
storeResults(o, lambda, delta) ==
    LET stored == storeAxes(storeDisplacement(o, delta), lambda, 1, axes(o))
    IN  UNION {IF s.crashed THEN {s} ELSE updateLimit(s) : s \in stored}

\* ---------------------------------------------------- buildConstraintMatrix
\* d_indices.getValue()[i] < m_state->getSize() dereferences m_state
derefFails(o) == o.m_state = "null" /\ Len(o.d_indices) > 0

\* the columns of one row: the valid point indices
validCols(o, size) == {o.d_indices[i] : i \in {x \in 1..Len(o.d_indices) : o.d_indices[x] < size}}

\* mutant: the rows are counted from start + 1
rowEntries_OffByOne(o, start, size, who) ==
    IF o.m_dim > 1
    THEN {[row |-> start + j, col |-> c, val |-> unitAxis(j), by |-> who] :
             j \in 1..total_size, c \in validCols(o, size)}
    ELSE {[row |-> start + 1, col |-> c, val |-> normalized(o.d_direction), by |-> who] :
             c \in validCols(o, size)}

\* the entries added by the row loop(s), rows counted from start
rowEntries(o, start, size, who) ==
    IF o.m_dim > 1
    THEN {[row |-> start + j - 1, col |-> c, val |-> unitAxis(j), by |-> who] :
             j \in 1..total_size, c \in validCols(o, size)}
    ELSE {[row |-> start, col |-> c, val |-> normalized(o.d_direction), by |-> who] :
             c \in validCols(o, size)}

\* the rows opened with writeLine
rowLines(o, start) == {start + j - 1 : j \in 1..axes(o)}

\* mutant: m_nbLines = cIndex, the start offset not subtracted
built_Absolute(o, start) ==
    [o EXCEPT !.d_constraintIndex = start,
              !.m_nbLines = start + axes(o)]

\* the object after the call: d_constraintIndex and m_nbLines = cIndex - constraintIndex
built(o, start) ==
    [o EXCEPT !.d_constraintIndex = start,
              !.m_nbLines = (start + axes(o)) - start]

\* ---------------------------------------------------------------- the state
VARIABLES
    scene,      \* the actuators of the scene
    obj,        \* obj[a]: the fields of actuator a
    inited,     \* the actuators whose init() has returned
    bodySize,   \* m_state->getSize() of the body the actuators point to
    cIndex,     \* the solver's row counter
    cMatrix,    \* the solver's constraint matrix: [lines, entries]
    builtNow,   \* the actuators that have built their rows in the current pass
    lastCall    \* the last call made and its arguments

vars == <<scene, obj, inited, bodySize, cIndex, cMatrix, builtNow, lastCall>>

NoCall == [op |-> "none", a |-> 0, lambda |-> <<>>, delta |-> <<>>, k |-> 0]
Call(op, a, lambda, delta, k) ==
    [op |-> op, a |-> a, lambda |-> lambda, delta |-> delta, k |-> k]

Crashed == \E a \in Actuators : obj[a].crashed

\* ------------------------------------------------------------ input domains
Directions == {<<0, 0, 0>>, <<0, 2, 0>>}
BodySizes  == 0..MaxBody
OptForce   == {Unset} \cup {Given(v) : v \in {-1, 1}}
OptInit    == {Unset, Given(1)}
OptVar     == {Unset} \cup {Given(v) : v \in {-1, 0, 1, 2}}
LambdaSeqs == UNION {[1..n -> Vals] : n \in {1, total_size}}
AnyLambda  == UNION {[1..n -> Extremes] : n \in 0..total_size}
PassIndexSeqs == {<<>>, <<0, MaxBody + 2>>, <<MaxBody + 2>>}
DeltaSeqs  == {<<>>, <<0>>, <<1, 0>>}

\* an actuator that is not part of the scene
Absent == Constructed(<<0, 0, 0>>, <<>>, Unset, Unset, Unset, Unset, "absent", 1)

\* the scenes a run can start from, right after construction
Scenes(members, dirs, idxs, maxs, mins, inits, vars_, states, dims) ==
    {f \in [Actuators ->
              {Constructed(dir, idx, maxF, minF, initF, maxVar, ms, dim0) :
                 dir \in dirs, idx \in idxs, maxF \in maxs, minF \in mins,
                 initF \in inits, maxVar \in vars_, ms \in states,
                 dim0 \in dims} \cup {Absent}] :
        \A a \in Actuators : (f[a] = Absent) <=> (a \notin members)}

InitScene(members, objs, sizes) ==
    /\ scene = members
    /\ obj \in objs
    /\ inited = {}
    /\ bodySize \in sizes
    /\ cIndex = 0
    /\ cMatrix = [lines |-> {}, entries |-> {}]
    /\ builtNow = {}
    /\ lastCall = NoCall

\* ------------------------------------------------------------------ actions
\* init(): lines 107-120
DoInit(a) ==
    /\ ~Crashed
    /\ a \in scene \ inited
    /\ \E r \in initAll(obj[a]) :
          /\ obj' = [obj EXCEPT ![a] = r]
          /\ inited' = IF r.crashed THEN inited ELSE inited \cup {a}
    /\ lastCall' = Call("init", a, <<>>, <<>>, 0)
    /\ UNCHANGED <<scene, bodySize, cIndex, cMatrix, builtNow>>

\* reinit(): lines 123-128
DoReinit(a) ==
    /\ ~Crashed
    /\ a \in inited
    /\ \E r \in initAll(obj[a]) : obj' = [obj EXCEPT ![a] = r]
    /\ lastCall' = Call("reinit", a, <<>>, <<>>, 0)
    /\ UNCHANGED <<scene, inited, bodySize, cIndex, cMatrix, builtNow>>

\* the scene edits the direction of an actuator and calls reinit() at once
ReinitWith(a, d) ==
    /\ ~Crashed
    /\ a \in inited
    /\ \E r \in initAll([obj[a] EXCEPT !.d_direction = d]) : obj' = [obj EXCEPT ![a] = r]
    /\ lastCall' = Call("reinit", a, <<>>, <<>>, 0)
    /\ UNCHANGED <<scene, inited, bodySize, cIndex, cMatrix, builtNow>>

\* the scene changes the direction Data of an actuator; m_dim follows only at reinit
SetDirection(a, d) ==
    /\ ~Crashed
    /\ a \in scene
    /\ d # obj[a].d_direction
    /\ obj' = [obj EXCEPT ![a].d_direction = d]
    /\ lastCall' = Call("setDirection", a, <<>>, <<>>, 0)
    /\ UNCHANGED <<scene, inited, bodySize, cIndex, cMatrix, builtNow>>

\* the body model changes its number of points between two passes
ResizeBody(n) ==
    /\ ~Crashed
    /\ builtNow = {}
    /\ n # bodySize
    /\ bodySize' = n
    /\ lastCall' = Call("resizeBody", 0, <<>>, <<>>, 0)
    /\ UNCHANGED <<scene, obj, inited, cIndex, cMatrix, builtNow>>

\* the solver starts a pass: empty matrix, row counter at the offset left by
\* the constraints built before the actuators
ResetConstraint(k) ==
    /\ ~Crashed
    /\ builtNow # {} \/ cIndex # k
    /\ cIndex' = k
    /\ cMatrix' = [lines |-> {}, entries |-> {}]
    /\ builtNow' = {}
    /\ lastCall' = Call("resetConstraint", 0, <<>>, <<>>, k)
    /\ UNCHANGED <<scene, obj, inited, bodySize>>

\* buildConstraintMatrix(cParams, cMatrix, cIndex, x): lines 215-260
BuildConstraintMatrix(a) ==
    /\ ~Crashed
    /\ a \in scene \ builtNow
    /\ lastCall' = Call("buildConstraintMatrix", a, <<>>, <<>>, cIndex)
    /\ IF derefFails(obj[a])
       THEN /\ obj' = [obj EXCEPT ![a] = Crash([obj[a] EXCEPT !.d_constraintIndex = cIndex])]
            /\ UNCHANGED <<scene, inited, bodySize, cIndex, cMatrix, builtNow>>
       ELSE /\ obj' = [obj EXCEPT ![a] = built(obj[a], cIndex)]
            /\ cMatrix' = [lines   |-> cMatrix.lines \cup rowLines(obj[a], cIndex),
                           entries |-> cMatrix.entries
                                         \cup rowEntries(obj[a], cIndex, bodySize, a)]
            /\ cIndex' = cIndex + axes(obj[a])
            /\ builtNow' = builtNow \cup {a}
            /\ UNCHANGED <<scene, inited, bodySize>>

\* storeResults(lambda, delta): lines 283-301
StoreResults(a, lambda, delta) ==
    /\ ~Crashed
    /\ a \in scene
    /\ \E r \in storeResults(obj[a], lambda, delta) : obj' = [obj EXCEPT ![a] = r]
    /\ lastCall' = Call("storeResults", a, lambda, delta, 0)
    /\ UNCHANGED <<scene, inited, bodySize, cIndex, cMatrix, builtNow>>

\* the solver's call once the component is initialised: lambda and delta hold
\* at least the entries the actuator reads
SolverStoreResults(a, lambda, delta) ==
    /\ a \in inited
    /\ Len(lambda) = axes(obj[a])
    /\ Len(delta) >= 1
    /\ StoreResults(a, lambda, delta)

\* the multipliers of a solver that respects the bounds it was handed
insideBounds(o, lambda) ==
    \A j \in 1..axes(o) : o.m_lambdaMin[j] <= lambda[j] /\ lambda[j] <= o.m_lambdaMax[j]

BoundedStoreResults(a, lambda, delta) ==
    /\ a \in inited
    /\ Len(lambda) = axes(obj[a])
    /\ insideBounds(obj[a], lambda)
    /\ SolverStoreResults(a, lambda, delta)

\* the solver builds the rows of the components it has initialised
SolverBuildConstraintMatrix(a) ==
    /\ a \in inited
    /\ BuildConstraintMatrix(a)

\* --------------------------------------------------------- specifications
\* Spec: one actuator, the whole lifecycle, calls in any order with any input
Init ==
    InitScene({1}, Scenes({1}, Directions, {<<>>, <<1, MaxBody + 2>>},
                          {Unset}, {Unset}, {Unset, Given(1)},
                          {Unset, Given(1)}, {"null", "body"}, {1, total_size}),
              {0, MaxBody})

Next ==
    \/ \E a \in Actuators : DoInit(a)
    \/ \E a \in Actuators : DoReinit(a)
    \/ \E a \in Actuators, d \in Directions : SetDirection(a, d)
    \/ \E a \in Actuators : BuildConstraintMatrix(a)
    \/ \E a \in Actuators, lambda \in AnyLambda, delta \in DeltaSeqs :
          StoreResults(a, lambda, delta)

Spec == Init /\ [][Next]_vars

\* SpecLimits: one actuator, every configuration of the bounds, a solver that
\* calls storeResults after init with vectors of the size it built
InitLimits ==
    InitScene({1}, Scenes({1}, {<<0, 0, 0>>}, {<<1>>}, OptForce, OptForce, OptInit,
                          OptVar, {"body"}, {1, total_size}),
              {MaxBody})

NextLimits ==
    \/ \E a \in Actuators : DoInit(a)
    \/ \E a \in Actuators, d \in Directions : ReinitWith(a, d)
    \/ \E a \in Actuators, lambda \in LambdaSeqs :
          SolverStoreResults(a, lambda, <<1, 0>>)

SpecLimits == InitLimits /\ [][NextLimits]_vars

\* SpecRate: as SpecLimits, for the configurations whose maxForceVariation, when
\* set, is positive
InitRate ==
    InitScene({1}, Scenes({1}, {<<0, 0, 0>>}, {<<1>>}, OptForce, OptForce, OptInit,
                          {v \in OptVar : ~v.isSet \/ v.value > 0}, {"body"}, {1, total_size}),
              {MaxBody})

SpecRate == InitRate /\ [][NextLimits]_vars

\* SpecSolver: as SpecLimits, with multipliers inside the bounds handed to the solver
NextSolver ==
    \/ \E a \in Actuators : DoInit(a)
    \/ \E a \in Actuators, d \in Directions : ReinitWith(a, d)
    \/ \E a \in Actuators, lambda \in LambdaSeqs :
          BoundedStoreResults(a, lambda, <<1, 0>>)

SpecSolver == InitLimits /\ [][NextSolver]_vars

\* SpecPass: two actuators on one body, build passes of the solver
InitPass ==
    InitScene(Actuators, Scenes(Actuators, Directions, PassIndexSeqs, {Unset}, {Unset},
                                {Unset}, {Unset}, {"body"}, {1}),
              BodySizes)

NextPass ==
    \/ \E a \in Actuators : DoInit(a)
    \/ \E n \in BodySizes : ResizeBody(n)
    \/ \E k \in 0..MaxStart : ResetConstraint(k)
    \/ \E a \in Actuators : SolverBuildConstraintMatrix(a)

SpecPass == InitPass /\ [][NextPass]_vars

\* ------------------------------------------------------------------ claims
\* the actuators whose init() has returned and whose process is running
Live == {a \in inited : ~obj[a].crashed}

Dims(o) == 1..o.m_dim

\* a floor and a ceiling are both configured, consistently
WellFormed(o) ==
    /\ o.m_hasLambdaMin
    /\ o.m_hasLambdaMax
    /\ o.d_maxForceVariation.isSet => o.d_maxForceVariation.value >= 0
    /\ (o.d_minForce.isSet /\ o.d_maxForce.isSet) => o.d_minForce.value <= o.d_maxForce.value

\* C1 as stated: after every updateLimit(), lambdaMin[i] <= lambdaMax[i] on every
\* axis, for every configuration and every stored force.
C1_Original ==
    \A a \in Live : \A i \in Dims(obj[a]) : obj[a].m_lambdaMin[i] <= obj[a].m_lambdaMax[i]

\* C1 amended: after every updateLimit(), lambdaMin[i] <= lambdaMax[i] on every
\* axis, for every stored force, when the configuration gives both a floor and a
\* ceiling (hasLambdaMin and hasLambdaMax), maxForceVariation is not negative and
\* minForce <= maxForce when both are set.
C1_BoundsOrdered ==
    \A a \in Live :
       WellFormed(obj[a]) =>
          \A i \in Dims(obj[a]) : obj[a].m_lambdaMin[i] <= obj[a].m_lambdaMax[i]

C1_Witness ==
    /\ lastCall.op = "storeResults"
    /\ 1 \in Live
    /\ WellFormed(obj[1])
    /\ obj[1].d_minForce.isSet /\ obj[1].d_maxForce.isSet /\ obj[1].d_maxForceVariation.isSet
    /\ obj[1].m_lambdaMax[1] = obj[1].d_maxForce.value
    /\ obj[1].m_lambdaMin[1] = obj[1].d_force[1] - obj[1].d_maxForceVariation.value
    /\ obj[1].m_lambdaMin[1] # obj[1].d_minForce.value

\* C2: with maxForceVariation = D set, after every updateLimit() the bounds lie
\* inside [force - D, force + D] on every axis, and a storeResults whose
\* multipliers lie inside the current bounds moves the force by at most D per axis.
C2_RateBand ==
    [][\A a \in inited' :
          (~obj'[a].crashed /\ obj'[a].d_maxForceVariation.isSet) =>
             LET D == obj'[a].d_maxForceVariation.value
             IN  /\ \A j \in Dims(obj'[a]) :
                       /\ obj'[a].d_force[j] - D <= obj'[a].m_lambdaMin[j]
                       /\ obj'[a].m_lambdaMax[j] <= obj'[a].d_force[j] + D
                 /\ ( /\ lastCall'.op = "storeResults"
                      /\ lastCall'.a = a
                      /\ insideBounds(obj[a], lastCall'.lambda) )
                    => \A j \in Dims(obj'[a]) :
                          Abs(obj'[a].d_force[j] - obj[a].d_force[j]) <= D]_vars

C2_Witness ==
    /\ lastCall.op = "storeResults"
    /\ 1 \in Live
    /\ obj[1].m_dim = total_size
    /\ obj[1].d_maxForceVariation = Given(1)
    /\ obj[1].d_minForce.isSet
    /\ obj[1].m_lambdaMin[1] = obj[1].d_minForce.value
    /\ obj[1].m_lambdaMin[1] > obj[1].d_force[1] - 1
    /\ obj[1].m_lambdaMin[2] = obj[1].d_force[2] - 1

\* C3 as stated: with maxForce (resp. minForce) and maxForceVariation = D set,
\* lambdaMax differs from maxForce (resp. lambdaMin from minForce) only when the
\* force lies beyond that bound by more than D.
C3_Original ==
    \A a \in Live :
       obj[a].d_maxForceVariation.isSet =>
          LET D == obj[a].d_maxForceVariation.value
          IN  \A j \in Dims(obj[a]) :
                 /\ (obj[a].d_maxForce.isSet /\ obj[a].m_lambdaMax[j] # obj[a].d_maxForce.value)
                       => obj[a].d_force[j] > obj[a].d_maxForce.value + D
                 /\ (obj[a].d_minForce.isSet /\ obj[a].m_lambdaMin[j] # obj[a].d_minForce.value)
                       => obj[a].d_force[j] < obj[a].d_minForce.value - D

\* C3 amended: with maxForce (resp. minForce) and maxForceVariation = D set,
\* lambdaMax[j] differs from maxForce only when |maxForce - force[j]| >= D, the
\* force being at least D away from the bound on either side, and it is then
\* force[j] + D (resp. lambdaMin[j] = force[j] - D when |minForce - force[j]| >= D);
\* when the force is closer than D to the bound, the bound is the value handed
\* to the solver.
C3_AbsoluteOrBand ==
    \A a \in Live :
       obj[a].d_maxForceVariation.isSet =>
          LET D == obj[a].d_maxForceVariation.value
          IN  \A j \in Dims(obj[a]) :
                 /\ obj[a].d_maxForce.isSet =>
                       obj[a].m_lambdaMax[j] =
                          IF Abs(obj[a].d_maxForce.value - obj[a].d_force[j]) >= D
                          THEN obj[a].d_force[j] + D ELSE obj[a].d_maxForce.value
                 /\ obj[a].d_minForce.isSet =>
                       obj[a].m_lambdaMin[j] =
                          IF Abs(obj[a].d_minForce.value - obj[a].d_force[j]) >= D
                          THEN obj[a].d_force[j] - D ELSE obj[a].d_minForce.value

C3_Witness ==
    /\ lastCall.op = "storeResults"
    /\ 1 \in Live
    /\ obj[1].m_dim = total_size
    /\ obj[1].d_maxForceVariation.isSet /\ obj[1].d_maxForce.isSet
    /\ obj[1].d_force[1] # obj[1].d_maxForce.value
    /\ obj[1].m_lambdaMax[1] = obj[1].d_maxForce.value
    /\ obj[1].m_lambdaMax[2] # obj[1].d_maxForce.value

\* C4: storeResults(lambda, delta) sets displacement to delta[0] and force[j] to
\* lambda[j] for every j < dimension, and the bounds left after the call are the
\* ones updateLimit() computes from the newly stored force.
C4_StoreThenRefresh ==
    \A a \in Live :
       ( /\ lastCall.op = "storeResults"
         /\ lastCall.a = a
         /\ Len(lastCall.lambda) >= obj[a].m_dim
         /\ Len(lastCall.delta) >= 1 )
       => /\ obj[a].d_displacement = lastCall.delta[1]
          /\ \A j \in Dims(obj[a]) : obj[a].d_force[j] = lastCall.lambda[j]
          /\ LET fresh == [obj[a] EXCEPT
                             !.d_force = [j \in Dims(obj[a]) |-> lastCall.lambda[j]]]
             IN  \A r \in updateLimit(fresh) :
                    /\ r.m_lambdaMin = obj[a].m_lambdaMin
                    /\ r.m_lambdaMax = obj[a].m_lambdaMax

C4_Witness ==
    /\ lastCall.op = "storeResults"
    /\ 1 \in Live
    /\ obj[1].m_dim = 1
    /\ Len(lastCall.lambda) = total_size
    /\ obj[1].d_force = <<0 - MaxForce>>
    /\ obj[1].d_displacement = 1
    /\ obj[1].d_maxForceVariation.isSet
    /\ obj[1].m_lambdaMax = <<1 - MaxForce>>

\* C5: buildConstraintMatrix called with start offset k stores constraintIndex = k,
\* advances the solver's row counter by exactly dimension and records
\* rowCount = dimension, whatever the index sequence (empty, partly or wholly out
\* of range).
C5_RowCount ==
    \A a \in Live :
       (lastCall.op = "buildConstraintMatrix" /\ lastCall.a = a) =>
          /\ obj[a].d_constraintIndex = lastCall.k
          /\ cIndex = lastCall.k + obj[a].m_dim
          /\ obj[a].m_nbLines = obj[a].m_dim

C5_Witness ==
    /\ lastCall.op = "buildConstraintMatrix"
    /\ lastCall.a = 2
    /\ lastCall.k > MaxStart
    /\ 2 \in Live
    /\ obj[2].m_dim = total_size
    /\ obj[2].d_indices = <<MaxBody + 2>>
    /\ obj[2].m_nbLines = total_size
    /\ \A e \in cMatrix.entries : e.by # 2

\* the rows [constraintIndex, constraintIndex + dimension) of an actuator
ownRows(o) == o.d_constraintIndex..(o.d_constraintIndex + o.m_dim - 1)

\* C6: every entry written by buildConstraintMatrix lies in a row of
\* [constraintIndex, constraintIndex + dimension) of its actuator and in a column
\* that is a member of pointIndices below the body's point count; the row ranges
\* of the actuators built in one pass are pairwise disjoint and every row written
\* belongs to exactly one of them.
C6_OwnRowsOnly ==
    /\ \A e \in cMatrix.entries :
          /\ e.by \in builtNow
          /\ e.row \in ownRows(obj[e.by])
          /\ \E i \in 1..Len(obj[e.by].d_indices) : obj[e.by].d_indices[i] = e.col
          /\ e.col < bodySize
    /\ \A a \in builtNow, b \in builtNow :
          a # b => ownRows(obj[a]) \cap ownRows(obj[b]) = {}
    /\ \A r \in cMatrix.lines :
          Cardinality({a \in builtNow : r \in ownRows(obj[a])}) = 1

C6_Witness ==
    /\ builtNow = Actuators
    /\ obj[1].m_dim = total_size
    /\ obj[2].m_dim = 1
    /\ obj[1].d_constraintIndex > obj[2].d_constraintIndex
    /\ \E e \in cMatrix.entries : e.by = 1 /\ e.row = obj[1].d_constraintIndex + 2
    /\ \E e \in cMatrix.entries : e.by = 2 /\ e.val = <<0, 1, 0>>
    /\ Cardinality(cMatrix.lines) = total_size + 1

\* C7: buildConstraintMatrix and storeResults complete without a fault in every
\* state the lifecycle can reach and for every input.
C7_NoFault == ~Crashed

\* the bounds a call of updateLimit() leaves, and those a second call leaves
boundsAfter(o) == {<<r.crashed, r.m_lambdaMin, r.m_lambdaMax>> : r \in updateLimit(o)}
boundsAfterTwo(o) ==
    {<<r.crashed, r.m_lambdaMin, r.m_lambdaMax>> :
        r \in UNION {updateLimit(q) : q \in updateLimit(o)}}

\* C8: updateLimit() is idempotent: called twice in a row with force unchanged, the
\* second call leaves lambdaMin and lambdaMax as the first left them, from the
\* bounds the object holds and from any other bounds it could hold.
C8_Idempotent ==
    \A a \in Live :
       /\ boundsAfter(obj[a]) = {<<FALSE, obj[a].m_lambdaMin, obj[a].m_lambdaMax>>}
       /\ \A x \in Vals, y \in Vals :
             LET any == [obj[a] EXCEPT !.m_lambdaMin = filled(obj[a].m_dim, x),
                                       !.m_lambdaMax = filled(obj[a].m_dim, y)]
             IN  boundsAfterTwo(any) = boundsAfter(any)

C8_Witness ==
    /\ lastCall.op = "storeResults"
    /\ 1 \in Live
    /\ obj[1].m_dim = total_size
    /\ obj[1].d_maxForceVariation.isSet /\ obj[1].d_maxForceVariation.value > 0
    /\ ~obj[1].d_minForce.isSet
    /\ obj[1].d_maxForce.isSet
    /\ obj[1].m_lambdaMax[1] = obj[1].d_maxForce.value
    /\ obj[1].m_lambdaMax[2] # obj[1].d_maxForce.value
    /\ obj[1].m_lambdaMin[1] # obj[1].m_lambdaMin[2]

\* C9: after any sequence of init, reinit, buildConstraintMatrix and storeResults,
\* force, lambdaMin, lambdaMax and lambdaInit all have length dimension, and
\* dimension changes only in init / reinit, to 3 when the direction is the zero
\* vector and to 1 otherwise.
C9_Lengths ==
    [][\A a \in inited' :
          ~obj'[a].crashed =>
             /\ Len(obj'[a].d_force) = obj'[a].m_dim
             /\ Len(obj'[a].m_lambdaMin) = obj'[a].m_dim
             /\ Len(obj'[a].m_lambdaMax) = obj'[a].m_dim
             /\ Len(obj'[a].m_lambdaInit) = obj'[a].m_dim
             /\ ( \/ a \notin inited
                  \/ obj'[a].m_dim # obj[a].m_dim
                  \/ (lastCall'.op \in {"init", "reinit"} /\ lastCall'.a = a) )
                => /\ lastCall'.op \in {"init", "reinit"}
                   /\ obj'[a].m_dim =
                         IF obj'[a].d_direction = <<0, 0, 0>> THEN 3 ELSE 1]_vars

C9_Witness ==
    /\ lastCall.op = "reinit"
    /\ 1 \in Live
    /\ obj[1].d_direction # <<0, 0, 0>>
    /\ obj[1].m_dim = 1
    /\ obj[1].m_nbLines = total_size
    /\ obj[1].d_force = <<1>>
    /\ Len(obj[1].m_lambdaMin) = 1

\* C10: with minForce, maxForce and maxForceVariation >= 0 all set,
\* minForce <= initForce <= maxForce and every storeResults receiving multipliers
\* inside the current bounds, in every reachable state
\* minForce <= lambdaMin[j], lambdaMax[j] <= maxForce and
\* minForce <= force[j] <= maxForce on every axis j.
C10_WithinAbsolute ==
    \A a \in Live :
       ( /\ obj[a].d_minForce.isSet /\ obj[a].d_maxForce.isSet
         /\ obj[a].d_maxForceVariation.isSet /\ obj[a].d_maxForceVariation.value >= 0
         /\ obj[a].d_minForce.value <= obj[a].d_initForce.value
         /\ obj[a].d_initForce.value <= obj[a].d_maxForce.value )
       => \A j \in Dims(obj[a]) :
             /\ obj[a].d_minForce.value <= obj[a].m_lambdaMin[j]
             /\ obj[a].m_lambdaMax[j] <= obj[a].d_maxForce.value
             /\ obj[a].d_minForce.value <= obj[a].d_force[j]
             /\ obj[a].d_force[j] <= obj[a].d_maxForce.value

C10_Witness ==
    /\ lastCall.op = "storeResults"
    /\ 1 \in Live
    /\ obj[1].d_minForce.isSet /\ obj[1].d_maxForce.isSet
    /\ obj[1].d_maxForceVariation = Given(1)
    /\ obj[1].d_minForce.value <= obj[1].d_initForce.value
    /\ obj[1].d_initForce.value <= obj[1].d_maxForce.value
    /\ obj[1].d_force[1] = obj[1].d_maxForce.value
    /\ obj[1].d_force[1] # obj[1].d_initForce.value
    /\ obj[1].m_lambdaMax[1] = obj[1].d_maxForce.value
    /\ obj[1].m_lambdaMin[1] > obj[1].d_minForce.value

====
